---- MODULE Spec2Model ----
(***************************************************************************)
(* Model of pwsh-history-sync.                                             *)
(*                                                                         *)
(* Two programs live in the repository:                                    *)
(*   - src/main.go: a ticker loop that runs syncHistory (open, pull, read  *)
(*     the local history file, write it to the repository file, commit,    *)
(*     push).  Specification SpecSync.                                     *)
(*   - src/unnamed/part_001: a one-shot main that resolves the home        *)
(*     directory, loads credentials, opens or initialises the repository,  *)
(*     ensures the remote "origin" and pulls.  Specification SpecLink.     *)
(*                                                                         *)
(* A history log is a sequence of lines; a line is a number in 1..NumLines.*)
(***************************************************************************)
EXTENDS Integers, Sequences, FiniteSets, TLC

\* ---------------------------------------------------------------- bounds
NumLines == 2
MaxLen == 1

Lines == 1..NumLines

\* ------------------------------------------------------------- variables
VARIABLES
    \* ---- src/main.go
    pc,            \* position of the ticker loop / syncHistory
    tickPending,   \* a tick waits in ticker.C (channel of capacity 1)
    localFile,     \* content of historyFile (the local history file)
    repoFile,      \* content of /path/to/repo/ConsoleHost_history.txt (worktree)
    indexLog,      \* content of the history file in the repository's index
    headLog,       \* content of the history file in the local HEAD commit
    remoteLog,     \* content of the history file at origin's head
    remoteAhead,   \* origin has commits the local repository has not fetched
    localAhead,    \* the local repository has commits origin does not have
    localHistory,  \* syncHistory's local variable of that name
    err,           \* main's err: "none" before the first cycle, then what
                   \* syncHistory returned ("nil" or the failing step)
    cyc,           \* record of what the running / last cycle did
    pcB,           \* position of a second agent process started on the same paths
    \* ---- src/unnamed/part_001
    pc2,           \* position of main
    env,           \* process environment
    files,         \* config files on disk, by path
    homeDir,       \* package-level variable homeDir
    configFilePath,\* package-level variable configFilePath
    mainHome,      \* main's local variable homeDir
    creds,         \* what loadCredentials returned
    isRepo,        \* gitRepoPath holds a git repository
    remotes,       \* remotes configured in that repository
    goos,          \* runtime.GOOS
    run            \* record of what the current run did

syncVars == <<pc, tickPending, localFile, repoFile, indexLog, headLog,
              remoteLog, remoteAhead, localAhead, localHistory, err, cyc>>
linkVars == <<pc2, env, files, homeDir, configFilePath, mainHome, creds,
              isRepo, remotes, goos, run>>
vars == <<syncVars, pcB, linkVars>>

\* --------------------------------------------------------------- helpers
SeqSet(s) == {s[i] : i \in DOMAIN s}

Prefix(s, n) == SubSeq(s, 1, n)

\* the record a cycle starts with: the two files as the cycle finds them and
\* whether the cycle before it returned nil
NewCycle(l, r, ok) ==
    [preLocal |-> l, preRepo |-> r, prevOk |-> ok, pulled |-> <<>>,
     pullOk |-> FALSE, pullResult |-> "none",
     pulls |-> 0, read |-> FALSE, wrote |-> FALSE, written |-> <<>>, committed |-> FALSE,
     pushes |-> 0, pushed |-> FALSE, pushResult |-> "none"]

\* ======================================================== src/main.go ====

\* The shell appends a command to the local history file.
LocalAppend ==
    /\ Len(localFile) < MaxLen
    /\ \E l \in Lines : localFile' = Append(localFile, l)
    /\ UNCHANGED <<pc, tickPending, repoFile, indexLog, headLog, remoteLog,
                   remoteAhead, localAhead, localHistory, err, cyc>>
    /\ UNCHANGED <<pcB, linkVars>>

\* Another machine pushes a commit to origin that appends a line.
RemoteAdvance ==
    /\ Len(remoteLog) < MaxLen
    /\ \E l \in Lines : remoteLog' = Append(remoteLog, l)
    /\ remoteAhead' = TRUE
    /\ UNCHANGED <<pc, tickPending, localFile, repoFile, indexLog, headLog,
                   localAhead, localHistory, err, cyc>>
    /\ UNCHANGED <<pcB, linkVars>>

\* time.NewTicker: the ticker puts a tick in ticker.C; a tick that finds the
\* channel full is dropped.
Tick ==
    /\ tickPending' = TRUE
    /\ UNCHANGED <<pc, localFile, repoFile, indexLog, headLog, remoteLog,
                   remoteAhead, localAhead, localHistory, err, cyc>>
    /\ UNCHANGED <<pcB, linkVars>>

\* for range ticker.C { err := syncHistory() ...: the loop takes the tick
\* and enters syncHistory.
StartCycle ==
    /\ pc = "idle"
    /\ tickPending
    /\ tickPending' = FALSE
    /\ pc' = "open"
    /\ localHistory' = <<>>
    /\ err' = "nil"
    /\ cyc' = NewCycle(localFile, repoFile, err = "nil")
    /\ UNCHANGED <<localFile, repoFile, indexLog, headLog, remoteLog,
                   remoteAhead, localAhead>>
    /\ UNCHANGED <<pcB, linkVars>>

\* git.PlainOpen(repoPath) and repo.Worktree(); an error returns it.
Open ==
    /\ pc = "open"
    /\ \E ok \in BOOLEAN :
          IF ok THEN pc' = "pull" /\ err' = err
                ELSE pc' = "ret" /\ err' = "open"
    /\ UNCHANGED <<tickPending, localFile, repoFile, indexLog, headLog,
                   remoteLog, remoteAhead, localAhead, localHistory, cyc>>
    /\ UNCHANGED <<pcB, linkVars>>

\* The results w.Pull can have: a transient failure of the transport
\* ("neterr") and a lasting failure such as rejected credentials ("error")
\* are always possible; with nothing to fetch it reports
\* NoErrAlreadyUpToDate; a fetched update is merged by fast-forward only, and
\* only into a worktree without unstaged changes.
PullOutcomes(rAhead, lAhead, dirty) ==
    {"neterr", "error"} \cup
    (IF ~rAhead THEN {"uptodate"}
     ELSE IF ~lAhead /\ ~dirty THEN {"updated"} ELSE {})

\* mutant: NoErrAlreadyUpToDate is returned like any other error
PullContinuesOnUpdateOnly(res) == res = "updated"

\* err = w.Pull(...); if err != nil && err != git.NoErrAlreadyUpToDate
PullContinues(res) == res \in {"updated", "uptodate"}

Pull ==
    /\ pc = "pull"
    /\ \E res \in PullOutcomes(remoteAhead, localAhead, repoFile # indexLog) :
          /\ IF res = "updated"
                THEN /\ headLog' = remoteLog
                     /\ indexLog' = remoteLog
                     /\ repoFile' = remoteLog
                     /\ remoteAhead' = FALSE
                ELSE UNCHANGED <<headLog, indexLog, repoFile, remoteAhead>>
          /\ IF PullContinues(res)
                THEN /\ pc' = "read"
                     /\ err' = err
                     /\ cyc' = [cyc EXCEPT !.pulls = 1, !.pullOk = TRUE,
                                           !.pullResult = res,
                                           !.pulled = headLog']
                ELSE /\ pc' = "ret"
                     /\ err' = "pull"
                     /\ cyc' = [cyc EXCEPT !.pulls = 1, !.pullResult = res]
    /\ UNCHANGED <<tickPending, localFile, remoteLog, localAhead,
                   localHistory>>
    /\ UNCHANGED <<pcB, linkVars>>

\* if len(localHistory) > 0 { write, commit, push }
HasNewEntries(local) == Len(local) > 0

\* localHistory, err := os.ReadFile(historyFile), then the test above; with
\* nothing to write syncHistory returns nil.
ReadLocal ==
    /\ pc = "read"
    /\ \E ok \in BOOLEAN :
          IF ok
             THEN /\ localHistory' = localFile
                  /\ cyc' = [cyc EXCEPT !.read = TRUE]
                  /\ pc' = IF HasNewEntries(localFile) THEN "write" ELSE "ret"
                  /\ err' = err
             ELSE /\ pc' = "ret"
                  /\ err' = "read"
                  /\ UNCHANGED <<localHistory, cyc>>
    /\ UNCHANGED <<tickPending, localFile, repoFile, indexLog, headLog,
                   remoteLog, remoteAhead, localAhead>>
    /\ UNCHANGED <<pcB, linkVars>>

\* The content syncHistory writes to the repository file.
WrittenLog(local, pulled) == local

\* What a failed os.WriteFile can leave: the file as it was (the open
\* failed) or a strict prefix of the data (truncated, then a short write).
FailedWrite(old, data) == {old} \cup {Prefix(data, n) : n \in 0..(Len(data) - 1)}

\* os.WriteFile("/path/to/repo/ConsoleHost_history.txt", localHistory, 0644)
Write ==
    /\ pc = "write"
    /\ \/ /\ repoFile' = WrittenLog(localHistory, cyc.pulled)
          /\ cyc' = [cyc EXCEPT !.wrote = TRUE, !.written = repoFile']
          /\ pc' = "commit"
          /\ err' = err
       \/ /\ repoFile' \in FailedWrite(repoFile, localHistory)
          /\ pc' = "ret"
          /\ err' = "write"
          /\ cyc' = cyc
    /\ UNCHANGED <<tickPending, localFile, indexLog, headLog, remoteLog,
                   remoteAhead, localAhead, localHistory>>
    /\ UNCHANGED <<pcB, linkVars>>

\* w.Commit("Sync shell history", &git.CommitOptions{}): the commit is made
\* of the index; nothing was staged by syncHistory.
Commit ==
    /\ pc = "commit"
    /\ \E ok \in BOOLEAN :
          IF ok
             THEN /\ headLog' = indexLog
                  /\ localAhead' = TRUE
                  /\ cyc' = [cyc EXCEPT !.committed = TRUE]
                  /\ pc' = "push"
                  /\ err' = err
             ELSE /\ pc' = "ret"
                  /\ err' = "commit"
                  /\ UNCHANGED <<headLog, localAhead, cyc>>
    /\ UNCHANGED <<tickPending, localFile, repoFile, indexLog, remoteLog,
                   remoteAhead, localHistory>>
    /\ UNCHANGED <<pcB, linkVars>>

\* The results repo.Push(&git.PushOptions{}) can have: a transport failure
\* is always possible; without Force a push onto a remote that advanced is
\* rejected; otherwise the local commits are published.
PushOutcomes(rAhead, lAhead) ==
    {"neterr"} \cup
    (IF rAhead THEN {"rejected"}
     ELSE IF lAhead THEN {"ok"} ELSE {"uptodate"})

\* err = repo.Push(&git.PushOptions{}); if err != nil { return err }
Push ==
    /\ pc = "push"
    /\ \E res \in PushOutcomes(remoteAhead, localAhead) :
          /\ cyc' = [cyc EXCEPT !.pushes = @ + 1, !.pushResult = res,
                                !.pushed = (res = "ok")]
          /\ IF res = "ok"
                THEN /\ remoteLog' = headLog
                     /\ localAhead' = FALSE
                     /\ pc' = "ret"
                     /\ err' = err
                ELSE /\ UNCHANGED <<remoteLog, localAhead>>
                     /\ pc' = "ret"
                     /\ err' = "push"
    /\ UNCHANGED <<tickPending, localFile, repoFile, indexLog, headLog,
                   remoteAhead, localHistory>>
    /\ UNCHANGED <<pcB, linkVars>>

\* mutant: main gives up after a cycle that returned an error
AfterCycleStopOnError(e) == IF e = "nil" THEN "idle" ELSE "stopped"

\* where main is after syncHistory returned e: the error is printed and the
\* for-range loop goes back to receive from ticker.C
AfterCycle(e) == "idle"

\* if err != nil { fmt.Println("Error syncing history:", err) }, and the
\* loop waits for the next tick; what syncHistory held is gone.
LoopReport ==
    /\ pc = "ret"
    /\ pc' = AfterCycle(err)
    /\ localHistory' = <<>>
    /\ cyc' = NewCycle(<<>>, <<>>, FALSE)
    /\ UNCHANGED <<tickPending, localFile, repoFile, indexLog, headLog,
                   remoteLog, remoteAhead, localAhead, err>>
    /\ UNCHANGED <<pcB, linkVars>>

\* ---- a second agent process: the same program, started again on the same
\* machine, with the same repoPath and historyFile.  What it prints is not
\* kept.

\* Its loop takes a tick of its own ticker and enters syncHistory; PlainOpen
\* and Worktree take no lock and do not look for a running cycle.
StartCycleB ==
    /\ pcB = "idle"
    /\ \E ok \in BOOLEAN : pcB' = IF ok THEN "pull" ELSE "idle"
    /\ UNCHANGED <<syncVars, linkVars>>

\* w.Pull in the second agent
PullB ==
    /\ pcB = "pull"
    /\ \E res \in PullOutcomes(remoteAhead, localAhead, repoFile # indexLog) :
          /\ IF res = "updated"
                THEN /\ headLog' = remoteLog
                     /\ indexLog' = remoteLog
                     /\ repoFile' = remoteLog
                     /\ remoteAhead' = FALSE
                ELSE UNCHANGED <<headLog, indexLog, repoFile, remoteAhead>>
          /\ pcB' = IF PullContinues(res) THEN "write" ELSE "idle"
    /\ UNCHANGED <<pc, tickPending, localFile, remoteLog, localAhead,
                   localHistory, err, cyc, linkVars>>

\* os.ReadFile, the length test and os.WriteFile in the second agent
WriteB ==
    /\ pcB = "write"
    /\ \/ /\ HasNewEntries(localFile)
          /\ repoFile' = WrittenLog(localFile, headLog)
          /\ pcB' = "commit"
       \/ /\ HasNewEntries(localFile)
          /\ repoFile' \in FailedWrite(repoFile, localFile)
          /\ pcB' = "idle"
       \/ /\ pcB' = "idle"
          /\ UNCHANGED repoFile
    /\ UNCHANGED <<pc, tickPending, localFile, indexLog, headLog, remoteLog,
                   remoteAhead, localAhead, localHistory, err, cyc, linkVars>>

\* w.Commit in the second agent
CommitB ==
    /\ pcB = "commit"
    /\ \E ok \in BOOLEAN :
          IF ok
             THEN /\ headLog' = indexLog
                  /\ localAhead' = TRUE
                  /\ pcB' = "push"
             ELSE /\ pcB' = "idle"
                  /\ UNCHANGED <<headLog, localAhead>>
    /\ UNCHANGED <<pc, tickPending, localFile, repoFile, indexLog, remoteLog,
                   remoteAhead, localHistory, err, cyc, linkVars>>

\* repo.Push in the second agent, and its return to the loop
PushB ==
    /\ pcB = "push"
    /\ \E res \in PushOutcomes(remoteAhead, localAhead) :
          IF res = "ok"
             THEN remoteLog' = headLog /\ localAhead' = FALSE
             ELSE UNCHANGED <<remoteLog, localAhead>>
    /\ pcB' = "idle"
    /\ UNCHANGED <<pc, tickPending, localFile, repoFile, indexLog, headLog,
                   remoteAhead, localHistory, err, cyc, linkVars>>

InitSync ==
    /\ pc = "idle"
    /\ tickPending = FALSE
    /\ localFile = <<>>
    /\ repoFile = <<>>
    /\ indexLog = <<>>
    /\ headLog = <<>>
    /\ remoteLog = <<>>
    /\ remoteAhead = FALSE
    /\ localAhead = FALSE
    /\ localHistory = <<>>
    /\ err = "none"
    /\ cyc = NewCycle(<<>>, <<>>, FALSE)
    /\ pcB = "idle"

NextSync ==
    \/ LocalAppend
    \/ RemoteAdvance
    \/ Tick
    \/ StartCycle
    \/ Open
    \/ Pull
    \/ ReadLocal
    \/ Write
    \/ Commit
    \/ Push
    \/ LoopReport


\* ============================================== src/unnamed/part_001 ====

\* values the environment and the config file can hold
EnvUser == "euser"
EnvToken == "etoken"
EnvRepo == "ehost/erepo.git"
CfgUser == "cuser"
CfgToken == "ctoken"
CfgRepo == "chost/crepo.git"
HomeUser == "huser"
HomeToken == "htoken"
HomeRepo == "hhost/hrepo.git"

\* a config file that does not exist or cannot be read, and one that is not YAML
Missing == [kind |-> "missing"]
Invalid == [kind |-> "invalid"]
Yaml(u, t, r) == [kind |-> "yaml", username |-> u, token |-> t, repo |-> r]

\* the variables of main before loadCredentials has returned
NoCreds == [username |-> "", password |-> "", repo |-> "", err |-> FALSE,
            source |-> "none"]

\* filepath.Join(dir, ".config", "config.yaml"): empty elements are ignored
JoinConfig(dir) ==
    IF dir = "" THEN ".config/config.yaml" ELSE dir \o "/.config/config.yaml"

HomeDirs == {"/home/u", "C:/Users/u", "/Users/u"}
ConfigPaths == {JoinConfig(d) : d \in HomeDirs \cup {""}}

\* func init(): historyFilePath, "" when APPDATA is not set
historyFilePath(e) ==
    IF e.APPDATA = "" THEN ""
    ELSE e.APPDATA \o "/Microsoft/Windows/PowerShell/PSReadLine/ConsoleHost_history.txt"

\* func getHomeDir() string
getHomeDir(os, e) ==
    IF os = "windows"
       THEN IF e.USERPROFILE # "" THEN e.USERPROFILE ELSE e.HOMEPATH
       ELSE e.HOME

\* func loadConfig(filePath string) (*Config, error)
loadConfig(fs, filePath) ==
    IF fs[filePath].kind = "yaml"
       THEN [err |-> FALSE, username |-> fs[filePath].username,
             token |-> fs[filePath].token, repo |-> fs[filePath].repo]
       ELSE [err |-> TRUE, username |-> "", token |-> "", repo |-> ""]

\* mutant: any one of the three variables qualifies the environment
EnvTripleSetAny(username, password, repo) ==
    username # "" \/ password # "" \/ repo # ""

\* if username != "" && password != "" && repo != ""
EnvTripleSet(username, password, repo) ==
    username # "" /\ password # "" /\ repo # ""

\* func loadCredentials() (string, string, string, error), given the
\* config path it computed
loadCredentials(e, fs, path) ==
    IF EnvTripleSet(e.GIT_USERNAME, e.GIT_TOKEN, e.GIT_REPO)
       THEN [username |-> e.GIT_USERNAME, password |-> e.GIT_TOKEN,
             repo |-> e.GIT_REPO, err |-> FALSE, source |-> "env"]
       ELSE LET config == loadConfig(fs, path)
            IN  IF config.err
                   THEN [username |-> "", password |-> "", repo |-> "",
                         err |-> TRUE, source |-> "file"]
                   ELSE [username |-> config.username,
                         password |-> config.token, repo |-> config.repo,
                         err |-> FALSE, source |-> "file"]

\* mutant: main goes on to the repository after a credential error
AfterCredentialsNoReturn(failed) == "open"

\* main: if err != nil { ...; return }, else linkAndPullFromRemote
AfterCredentials(failed) == IF failed THEN "exit" ELSE "open"

\* remoteConfig := fmt.Sprintf("https://%s:%s@%s", username, password, repoURL)
RemoteURL(username, password, repoURL) ==
    <<"https://", username, ":", password, "@", repoURL>>

\* for _, remote := range remotes { if remote.Config().Name == "origin" ...
remoteExists(rs) == \E r \in rs : r.name = "origin"

\* repo.CreateRemote(c): refused when a remote of that name exists
CreateRemote(rs, c) ==
    IF \E r \in rs : r.name = c.name THEN rs ELSE rs \cup {c}

\* mutant: "origin" is set to the new URL whether or not it exists
EnsureRemoteOverwrite(rs, username, password, repoURL) ==
    {r \in rs : r.name # "origin"} \cup
    {[name |-> "origin", urls |-> <<RemoteURL(username, password, repoURL)>>]}

\* if !remoteExists { repo.CreateRemote(origin, remoteConfig) }: the remotes
\* of the repository afterwards
EnsureRemote(rs, username, password, repoURL) ==
    IF remoteExists(rs) THEN rs
    ELSE CreateRemote(rs, [name |-> "origin",
                           urls |-> <<RemoteURL(username, password, repoURL)>>])

\* the record a run starts with: the remotes and the repository as the run
\* finds them, and whether an earlier run initialised the repository
NewRun(rs, rep, ib) ==
    [ops |-> {}, remotesBefore |-> rs, repoBefore |-> rep, initBefore |-> ib,
     initialized |-> FALSE, error |-> "nil", created |-> FALSE]

\* mutant: a repository is initialised whenever PlainOpen failed, also over
\* an existing one
OpenOrInitOverExisting(exists, openOk, initOk) ==
    IF openOk
       THEN [ok |-> TRUE, fresh |-> FALSE, ops |-> {"open"}]
       ELSE [ok |-> initOk, fresh |-> initOk, ops |-> {"open", "init"}]

\* mutant: the error of PlainInit is not returned
OpenOrInitIgnoreError(exists, openOk, initOk) ==
    IF openOk
       THEN [ok |-> TRUE, fresh |-> FALSE, ops |-> {"open"}]
       ELSE [ok |-> TRUE, fresh |-> ~exists /\ initOk, ops |-> {"open", "init"}]

\* repo, err := git.PlainOpen(gitRepoPath); if err != nil { repo, err =
\* git.PlainInit(gitRepoPath, false); if err != nil { return ... } }:
\* whether a handle is obtained, whether the repository is a fresh one, and
\* the calls made.  PlainInit refuses a path that holds a repository.
OpenOrInitRepo(exists, openOk, initOk) ==
    IF openOk
       THEN [ok |-> TRUE, fresh |-> FALSE, ops |-> {"open"}]
       ELSE IF ~exists /\ initOk
               THEN [ok |-> TRUE, fresh |-> TRUE, ops |-> {"open", "init"}]
               ELSE [ok |-> FALSE, fresh |-> FALSE, ops |-> {"open", "init"}]

\* main: homeDir := getHomeDir() (a variable local to main)
GetHome ==
    /\ pc2 = "home"
    /\ mainHome' = getHomeDir(goos, env)
    /\ pc2' = "check"
    /\ UNCHANGED <<env, files, homeDir, configFilePath, creds, isRepo,
                   remotes, goos, run>>
    /\ UNCHANGED <<syncVars, pcB>>

\* main: if historyFilePath == "" { ...; return }
CheckHistoryPath ==
    /\ pc2 = "check"
    /\ pc2' = IF historyFilePath(env) = "" THEN "exit" ELSE "creds"
    /\ UNCHANGED <<env, files, homeDir, configFilePath, mainHome, creds,
                   isRepo, remotes, goos, run>>
    /\ UNCHANGED <<syncVars, pcB>>

\* main: username, password, repo, err := loadCredentials()
LoadCredentials ==
    /\ pc2 = "creds"
    /\ configFilePath' = JoinConfig(homeDir)
    /\ creds' = loadCredentials(env, files, configFilePath')
    /\ pc2' = AfterCredentials(creds'.err)
    /\ run' = [run EXCEPT !.error = IF creds'.err THEN "credentials" ELSE @]
    /\ UNCHANGED <<env, files, homeDir, mainHome, isRepo, remotes, goos>>
    /\ UNCHANGED <<syncVars, pcB>>

\* linkAndPullFromRemote: git.PlainOpen(gitRepoPath); on error
\* git.PlainInit(gitRepoPath, false), which fails on an existing repository.
OpenOrInit ==
    /\ pc2 = "open"
    /\ \E openOk \in (IF isRepo THEN BOOLEAN ELSE {FALSE}), initOk \in BOOLEAN :
          LET res == OpenOrInitRepo(isRepo, openOk, initOk)
          IN  /\ isRepo' = (isRepo \/ res.fresh)
              /\ remotes' = IF res.fresh THEN {} ELSE remotes
              /\ run' = [run EXCEPT !.ops = @ \cup res.ops,
                                    !.initialized = res.fresh,
                                    !.error = IF res.ok THEN @ ELSE "init"]
              /\ pc2' = IF res.ok THEN "remotes" ELSE "exit"
    /\ UNCHANGED <<env, files, homeDir, configFilePath, mainHome, creds, goos>>
    /\ UNCHANGED <<syncVars, pcB>>

\* linkAndPullFromRemote: repo.Remotes(), the search for "origin" and the
\* creation of the remote when it is not there.
LinkRemote ==
    /\ pc2 = "remotes"
    /\ \E listOk \in BOOLEAN, createOk \in BOOLEAN :
          IF ~listOk
             THEN /\ run' = [run EXCEPT !.ops = @ \cup {"remotes"},
                                        !.error = "remotes"]
                  /\ pc2' = "exit"
                  /\ UNCHANGED remotes
             ELSE IF remoteExists(remotes)
                     THEN /\ remotes' = EnsureRemote(remotes, creds.username,
                                                     creds.password, creds.repo)
                          /\ run' = [run EXCEPT !.ops = @ \cup {"remotes"}]
                          /\ pc2' = "pull"
                     ELSE IF createOk
                             THEN /\ remotes' = EnsureRemote(remotes,
                                        creds.username, creds.password, creds.repo)
                                  /\ run' = [run EXCEPT
                                        !.ops = @ \cup {"remotes", "create"},
                                        !.created = TRUE]
                                  /\ pc2' = "pull"
                             ELSE /\ run' = [run EXCEPT
                                        !.ops = @ \cup {"remotes", "create"},
                                        !.error = "create"]
                                  /\ pc2' = "exit"
                                  /\ UNCHANGED remotes
    /\ UNCHANGED <<env, files, homeDir, configFilePath, mainHome, creds,
                   isRepo, goos>>
    /\ UNCHANGED <<syncVars, pcB>>

\* pullFromRemote: if err != nil && err == git.NoErrAlreadyUpToDate
\* { return nil } else if err != nil { return error }
pullFromRemote(res) ==
    IF res = "uptodate" THEN "nil"
    ELSE IF res # "updated" THEN "pull"
    ELSE "nil"

\* linkAndPullFromRemote: err = pullFromRemote(repo, username, password)
PullRemote ==
    /\ pc2 = "pull"
    /\ \E res \in {"updated", "uptodate", "neterr", "error"} :
          run' = [run EXCEPT !.ops = @ \cup {"pull"},
                             !.error = pullFromRemote(res)]
    /\ pc2' = "exit"
    /\ UNCHANGED <<env, files, homeDir, configFilePath, mainHome, creds,
                   isRepo, remotes, goos>>
    /\ UNCHANGED <<syncVars, pcB>>

Environments ==
    {e \in [GIT_USERNAME : {"", EnvUser}, GIT_TOKEN : {"", EnvToken},
            GIT_REPO : {"", EnvRepo}, APPDATA : {"", "C:/AppData"},
            HOME : {"", "/home/u"}, USERPROFILE : {"", "C:/Users/u"},
            HOMEPATH : {"", "/Users/u"}] : TRUE}

\* the environment a process on this system can be started with
EnvFor(os) ==
    {e \in Environments :
        IF os = "windows" THEN e.HOME = ""
        ELSE e.USERPROFILE = "" /\ e.HOMEPATH = ""}

\* The program is started again, in a new process with its own environment.
RunAgain ==
    /\ pc2 = "exit"
    /\ pc2' = "home"
    /\ env' \in EnvFor(goos)
    /\ mainHome' = ""
    /\ configFilePath' = ""
    /\ creds' = NoCreds
    /\ run' = NewRun(remotes, isRepo, run.initBefore \/ run.initialized)
    /\ UNCHANGED <<files, homeDir, isRepo, remotes, goos>>
    /\ UNCHANGED <<syncVars, pcB>>

\* remotes configured by hand; a URL is the sequence of its parts
ManualOrigin == [name |-> "origin", urls |-> << <<"git@host:me/history.git">> >>]
Upstream == [name |-> "upstream", urls |-> << <<"git@host:up/history.git">> >>]

InitLink ==
    /\ pc2 = "home"
    /\ goos \in {"windows", "linux"}
    /\ env \in EnvFor(goos)
    /\ \E cwd \in {Missing, Invalid} \cup
                  {Yaml(u, t, r) : u \in {"", CfgUser}, t \in {"", CfgToken},
                                   r \in {"", CfgRepo}},
          home \in {Missing, Yaml(HomeUser, HomeToken, HomeRepo)} :
          files = [p \in ConfigPaths |->
                      IF p = JoinConfig("") THEN cwd ELSE home]
    /\ homeDir = ""
    /\ configFilePath = ""
    /\ mainHome = ""
    /\ creds = NoCreds
    /\ isRepo \in BOOLEAN
    /\ remotes \in (IF isRepo THEN SUBSET {ManualOrigin, Upstream} ELSE {{}})
    /\ run = NewRun(remotes, isRepo, FALSE)

NextLink ==
    \/ GetHome
    \/ CheckHistoryPath
    \/ LoadCredentials
    \/ OpenOrInit
    \/ LinkRemote
    \/ PullRemote
    \/ RunAgain

\* ------------------------------------------------------- specifications

\* the program of src/unnamed/part_001 is not running
LinkAtRest ==
    /\ pc2 = "exit"
    /\ goos = "linux"
    /\ env = [GIT_USERNAME |-> "", GIT_TOKEN |-> "", GIT_REPO |-> "",
              APPDATA |-> "", HOME |-> "", USERPROFILE |-> "", HOMEPATH |-> ""]
    /\ files = [p \in ConfigPaths |-> Missing]
    /\ homeDir = ""
    /\ configFilePath = ""
    /\ mainHome = ""
    /\ creds = NoCreds
    /\ isRepo = FALSE
    /\ remotes = {}
    /\ run = NewRun({}, FALSE, FALSE)

\* the sync loop of src/main.go
InitSyncLoop == InitSync /\ LinkAtRest
SpecSync == InitSyncLoop /\ [][NextSync]_vars

\* the sync loop with the ticker firing again and again and the main
\* goroutine scheduled whenever it can receive a tick or go on after a cycle
FairSync ==
    /\ SpecSync
    /\ WF_vars(Tick)
    /\ WF_vars(StartCycle)
    /\ WF_vars(LoopReport)

\* the sync loop of src/main.go in two agent processes on one machine
NextTwoAgents ==
    \/ NextSync
    \/ StartCycleB
    \/ PullB
    \/ WriteB
    \/ CommitB
    \/ PushB
SpecTwoAgents == InitSyncLoop /\ [][NextTwoAgents]_vars

\* one or more runs of src/unnamed/part_001
InitLinkRun == InitLink /\ InitSync
SpecLink == InitLinkRun /\ [][NextLink]_vars

\* ================================================================ claims

\* The merge of section 4.3 of the specification: the remote sequence, then
\* the local lines that occur nowhere in it, in their order.
Merge(local, remote) ==
    remote \o SelectSeq(local, LAMBDA x : x \notin SeqSet(remote))

\* a cycle that ran without the shell appending to the local file meanwhile
Undisturbed == localFile = cyc.preLocal

\* C1: the log a cycle writes to the repository file contains every line of
\* the local log it read and every line of the remote log it last pulled.
C1_LossFree ==
    cyc.wrote =>
        (SeqSet(localHistory) \cup SeqSet(cyc.pulled)) \subseteq SeqSet(cyc.written)

\* C2: the log a cycle writes is the pulled remote log followed by the local
\* lines that are not in it.
C2_RemoteThenLocalOnly ==
    cyc.wrote => cyc.written = Merge(localHistory, cyc.pulled)

\* C3: a cycle whose merged log equals the last-synced snapshot (the log it
\* pulled) writes no file, makes no commit and does not push.
C3_NoOpIsFree ==
    (cyc.read /\ Merge(localHistory, cyc.pulled) = cyc.pulled) =>
        (~cyc.wrote /\ ~cyc.committed /\ cyc.pushes = 0)

\* C4: a rejected push is reported to the caller only after the cycle has
\* retried the push.
C4_ConflictRetried ==
    (pc = "ret" /\ err = "push" /\ cyc.pushResult = "rejected") => cyc.pushes > 1

\* C5: a cycle that aborts at the write, the commit or the push leaves both
\* files with the new merged log and a commit made, or both files as they
\* were before the cycle.  Stated for the cycles whose pull brought nothing,
\* so that only the cycle's own writes can have changed the repository file.
C5_AbortIsAtomic ==
    (pc = "ret" /\ err \in {"write", "commit", "push"} /\ Undisturbed
       /\ cyc.pullResult = "uptodate") =>
        LET merged == Merge(localHistory, cyc.pulled)
        IN  \/ localFile = merged /\ repoFile = merged /\ cyc.committed
            \/ localFile = cyc.preLocal /\ repoFile = cyc.preRepo

\* C6: after a completed cycle the local history file and the repository
\* file have equal content.
C6_FilesAgree ==
    (pc = "ret" /\ err = "nil" /\ Undisturbed) => localFile = repoFile

\* loadCredentials has returned in this run
CredentialsLoaded == creds.source # "none"

EnvComplete ==
    env.GIT_USERNAME # "" /\ env.GIT_TOKEN # "" /\ env.GIT_REPO # ""

\* the config file loadCredentials read
ConfigRead == files[configFilePath]

ConfigComplete ==
    /\ ConfigRead.kind = "yaml"
    /\ ConfigRead.username # "" /\ ConfigRead.token # "" /\ ConfigRead.repo # ""

\* C7: loadCredentials returns the environment triple exactly when the three
\* variables are all non-empty; otherwise what it returns is the content of
\* the config file (or its read error) and holds no environment value.
C7_EnvAllOrConfigOnly ==
    CredentialsLoaded =>
        /\ (creds.source = "env") <=> EnvComplete
        /\ EnvComplete =>
              /\ ~creds.err
              /\ <<creds.username, creds.password, creds.repo>> =
                    <<env.GIT_USERNAME, env.GIT_TOKEN, env.GIT_REPO>>
        /\ ~EnvComplete =>
              /\ creds.err <=> ConfigRead.kind # "yaml"
              /\ <<creds.username, creds.password, creds.repo>> =
                    IF ConfigRead.kind = "yaml"
                       THEN <<ConfigRead.username, ConfigRead.token, ConfigRead.repo>>
                       ELSE <<"", "", "">>
              /\ {creds.username, creds.password, creds.repo}
                    \cap {EnvUser, EnvToken, EnvRepo} = {}

\* a partly set environment, and the triple of a readable config file returned
C7_Witness ==
    /\ CredentialsLoaded
    /\ env.GIT_USERNAME = EnvUser /\ env.GIT_TOKEN = ""
    /\ ConfigRead.kind = "yaml"
    /\ creds.username = CfgUser /\ creds.repo = CfgRepo
    /\ pc2 = "open"

\* C8: when neither the environment nor the config file holds a complete
\* triple, loadCredentials returns an error.
C8_IncompleteIsError ==
    (CredentialsLoaded /\ ~EnvComplete /\ ~ConfigComplete) => creds.err

\* C9: a run whose credential resolution failed performs no repository
\* operation and has ended.
C9_NoRepoAfterCredentialError ==
    (run.error = "credentials") => (run.ops = {} /\ pc2 = "exit")

\* a run that ended on a credential error, next to an existing repository
C9_Witness ==
    /\ run.error = "credentials"
    /\ creds.err
    /\ pc2 = "exit"
    /\ isRepo

Origins(rs) == {r \in rs : r.name = "origin"}

\* C10: there is at most one remote "origin", and no step changes an
\* existing "origin": remotes change only when there was none.
C10_OriginUntouched ==
    /\ [](Cardinality(Origins(remotes)) <= 1)
    /\ [][remoteExists(remotes) => remotes' = remotes]_vars

\* linkAndPullFromRemote went past the remote step with complete
\* credentials while a manually configured "origin" was there
C10_Witness ==
    /\ pc2 = "pull"
    /\ ManualOrigin \in run.remotesBefore
    /\ ManualOrigin \in remotes
    /\ creds.source = "env"

\* C11: a pull that reports "already up to date" is no error: pullFromRemote
\* returns nil for it as for a pull that brought commits, and syncHistory
\* goes on to read the local file after it as it does after such a pull.
C11_UpToDateIsSuccess ==
    /\ [](pullFromRemote("uptodate") = "nil"
          /\ pullFromRemote("uptodate") = pullFromRemote("updated"))
    /\ [](cyc.pullResult \in {"uptodate", "updated"} => cyc.pullOk /\ err # "pull")
    /\ [][(pc = "pull" /\ cyc'.pullResult \in {"uptodate", "updated"})
             => (pc' = "read" /\ err' = "nil")]_vars

\* a cycle that went on to write after an up-to-date pull
C11_Witness ==
    /\ cyc.pullResult = "uptodate"
    /\ pc = "commit"
    /\ cyc.wrote

\* an agent is between the start and the exit of syncHistory
InCycle(p) == p \notin {"idle", "ret"}

\* C12: at no time are two cycles on the repository path between their
\* start and their exit.
C12_SingleFlight == ~(InCycle(pc) /\ InCycle(pcB))

\* C13: a transient network failure of the pull or of the push reaches the
\* caller only after the failed operation was attempted more than once.
C13_TransientRetried ==
    /\ (pc = "ret" /\ err = "pull" /\ cyc.pullResult = "neterr") => cyc.pulls > 1
    /\ (pc = "ret" /\ err = "push" /\ cyc.pushResult = "neterr") => cyc.pushes > 1

\* C14: every line of the repository file at the end of a completed cycle
\* is in the repository file at the end of the next completed cycle.
C14_SyncedLogGrows ==
    (pc = "ret" /\ err = "nil" /\ cyc.prevOk) =>
        SeqSet(cyc.preRepo) \subseteq SeqSet(repoFile)

\* C16: after a cycle that changed the log, committed and pushed, the
\* history file in the pushed commit is the log the cycle wrote.
C16_PushedCommitHoldsWrittenLog ==
    (cyc.pushed /\ cyc.written # cyc.pulled) => headLog = cyc.written

\* C19: a completed cycle that read an empty local log after pulling a
\* non-empty remote log leaves the local file equal to the remote log, and
\* makes no commit.
C19_EmptyLocalTakesRemote ==
    (pc = "ret" /\ err = "nil" /\ cyc.read /\ localHistory = <<>>
       /\ cyc.pulled # <<>> /\ Undisturbed) =>
        (localFile = cyc.pulled /\ ~cyc.committed)

\* the secrets credential resolution can yield
Tokens == {EnvToken, CfgToken, HomeToken}

\* the parts of the URLs stored in the repository's configuration
URLParts(r) == UNION {{r.urls[i][j] : j \in DOMAIN r.urls[i]} : i \in DOMAIN r.urls}
StoredURLParts == UNION {URLParts(r) : r \in remotes}

\* C15: the repository's stored configuration never contains the token.
C15_TokenNotPersisted == StoredURLParts \cap Tokens = {}

\* C17: the open-or-init step initialises only a path that held no
\* repository, and leaves an existing repository and its configuration as
\* they are, so a second application changes nothing.
C17_OpenOrInitIdempotent ==
    /\ [](run.initialized => ~run.repoBefore)
    /\ [][isRepo => isRepo']_vars
    /\ [][(pc2 = "open" /\ isRepo) => remotes' = remotes]_vars

\* a run that opened the repository an earlier run had initialised
C17_Witness ==
    /\ pc2 = "remotes"
    /\ run.initBefore
    /\ ~run.initialized
    /\ "init" \notin run.ops
    /\ remotes # {}

\* C18: when loadCredentials falls back to the config file, the path it
\* reads is .config/config.yaml under the home directory main got from
\* getHomeDir in this run.
C18_ConfigUnderResolvedHome ==
    (creds.source = "file") =>
        (homeDir = mainHome /\ configFilePath = JoinConfig(mainHome))

\* C20: after a cycle that returned an error the loop goes on and starts
\* another cycle, and a tick that waits while no cycle runs starts a cycle.
C20_LoopSurvivesErrors ==
    /\ (pc = "ret" /\ err # "nil") ~> (pc = "open")
    /\ (pc = "idle" /\ tickPending) ~> (pc = "open")

\* a cycle started after a cycle that had reached the pull and failed
C20_Witness ==
    /\ pc = "open"
    /\ ~cyc.prevOk
    /\ cyc.preRepo # <<>>

\* the pull of linkAndPullFromRemote is about to be made or was made
PullAttempted == pc2 = "pull" \/ "pull" \in run.ops

\* C21: linkAndPullFromRemote pulls only with a repository handle and a
\* remote "origin" in place; after a failure to open and initialise, to list
\* the remotes or to create the remote, the run has ended with that error
\* and without a pull.
C21_PullNeedsHandleAndOrigin ==
    /\ PullAttempted =>
          /\ isRepo
          /\ remoteExists(remotes)
          /\ {"open", "remotes"} \subseteq run.ops
          /\ (remoteExists(run.remotesBefore) \/ run.created)
    /\ run.error \in {"init", "remotes", "create"} =>
          (pc2 = "exit" /\ "pull" \notin run.ops)

\* a run that initialised the repository, created "origin" and pulled
C21_Witness ==
    /\ pc2 = "exit"
    /\ "pull" \in run.ops
    /\ run.initialized
    /\ run.created

====
